---------------------------- MODULE Spec2Model ----------------------------
(***************************************************************************)
(* A model of sonarr-mcp-server.py: the upstream client make_api_request   *)
(* and the eleven tool / resource handlers built on it.                    *)
(*                                                                         *)
(* JSON documents are functions from the keys that are present to values;  *)
(* an absent key is a key outside DOMAIN.  dict.get(k) without a default   *)
(* yields an optional value: <<>> is Python's None and <<v>> is v.  Text   *)
(* is a sequence; a message built by an f-string is the sequence of its    *)
(* pieces.  An identifier is a number, also where the code holds its text  *)
(* (the path parameter of a resource).  ISO dates YYYY-MM-DD are the integer YYYYMMDD, whose order is  *)
(* the lexicographic order of the strings.                                 *)
(***************************************************************************)
EXTENDS Integers, Sequences, FiniteSets, TLC

VARIABLES
    config,     \* the module globals SONARR_URL, SONARR_API_KEY, API_BASE
    env,        \* names the environment: what callers invoke, what Sonarr answers
    inv         \* the handler invocations, one record per invocation

vars == <<config, env, inv>>

---------------------------------------------------------------------------
(* Bounds of the model.                                                    *)

MaxSeries == 5      \* length of the series collection
MaxCalendar == 3    \* number of calendar entries
MaxQueue == 2       \* number of queue records
MaxSize == 3        \* size / sizeleft of a queue record
NumInv == 2         \* concurrent invocations in SpecConcurrent

(* Program constants.                                                      *)

OverviewLimitDetails == 500
OverviewLimitSearch == 300
OverviewLimitCalendar == 200
SearchLimit == 10
GenreLimit == 3
DefaultLanguageProfile == 1
CalendarDaysBack == 7
CalendarDaysForward == 30
ProgressDigits == 2

---------------------------------------------------------------------------
(* Python values.                                                          *)

None == <<>>
Some(v) == <<v>>
EmptyDoc == <<>>
Has(doc, k) == k \in DOMAIN doc
\* doc.get(k, default)
Get(doc, k, default) == IF Has(doc, k) THEN doc[k] ELSE default
\* doc.get(k)
Opt(doc, k) == IF Has(doc, k) THEN Some(doc[k]) ELSE None
\* bool(x) of an optional boolean
Truthy(o) == o = Some(TRUE)
\* s[:n]
Take(s, n) == SubSeq(s, 1, IF Len(s) < n THEN Len(s) ELSE n)
\* the marker "..."
Ellipsis == <<".", ".", ".">>
\* the marker appended already to a text of exactly limit characters
TruncateInclusive(s, limit) == Take(s, limit) \o (IF Len(s) >= limit THEN Ellipsis ELSE <<>>)
\* s[:limit] + ("..." if len(s) > limit else "")
Truncate(s, limit) == Take(s, limit) \o (IF Len(s) > limit THEN Ellipsis ELSE <<>>)
\* len([x for x in s if P(x)])
Count(s, P(_)) == Len(SelectSeq(s, P))
\* [f(x) for x in s]
Map(s, F(_)) == [k \in 1..Len(s) |-> F(s[k])]
Max(a, b) == IF a >= b THEN a ELSE b
\* a text of n characters, each named by its position so that every part of
\* the text differs from every other part
Text(n) == [k \in 1..n |-> ToString(k)]

\* round(num / den, 0) for den > 0, ties to the even neighbour as Python's round
RoundHalfEven(num, den) ==
    LET q == num \div den
        r == num % den
    IN  IF 2 * r < den THEN q
        ELSE IF 2 * r > den THEN q + 1
        ELSE IF q % 2 = 0 THEN q ELSE q + 1

RECURSIVE Pow10(_)
Pow10(n) == IF n = 0 THEN 1 ELSE 10 * Pow10(n - 1)

---------------------------------------------------------------------------
(* Configuration, lines 65-68.                                             *)

SONARR_URL == "http://sonarr:8989"
SONARR_API_KEY == "apikey"
API_BASE == <<SONARR_URL, "/api/v3">>
Configuration == [url |-> SONARR_URL, key |-> SONARR_API_KEY, base |-> API_BASE]

---------------------------------------------------------------------------
(* The upstream client make_api_request, lines 76-104.                     *)
(*                                                                         *)
(* What the network does to one HTTP request:                              *)
(*   refused    the connection cannot be established                       *)
(*   timeout    no answer in time; aiohttp's socket timeouts raise         *)
(*              ServerTimeoutError, the session's total timeout (on by     *)
(*              default, 5 minutes) raises asyncio.TimeoutError            *)
(*   status     an answer with a non-2xx status                            *)
(*   truncated  a 2xx answer whose body is cut short                       *)
(*   malformed  a 2xx answer whose complete body is not JSON               *)
(*   ok         a 2xx answer with a JSON body                              *)

Methods == {"GET", "POST", "PUT", "DELETE"}

TransportFailures ==
    { [kind |-> "refused", by |-> "connect"],
      [kind |-> "timeout", by |-> "socket"],
      [kind |-> "timeout", by |-> "total"],
      [kind |-> "status", by |-> "404"],
      [kind |-> "status", by |-> "500"] }

BodyFailures ==
    { [kind |-> "truncated", by |-> "payload"],
      [kind |-> "malformed", by |-> "json"] }

NetFailures == TransportFailures \cup BodyFailures

NetOk(body) == [kind |-> "ok", by |-> "2xx", body |-> body]

\* The exception aiohttp raises inside the session block for a network
\* outcome: session.get/post (connect, timeouts), raise_for_status (status),
\* response.json() (truncated or malformed body).
AiohttpRaises(method, net) ==
    CASE net.kind = "refused" ->
            [cls |-> "ClientConnectorError", msg |-> <<"Cannot connect to host">>]
      [] net.kind = "timeout" /\ net.by = "socket" ->
            [cls |-> "ServerTimeoutError", msg |-> <<"Timeout on reading data from socket">>]
      [] net.kind = "timeout" /\ net.by = "total" ->
            [cls |-> "TimeoutError", msg |-> <<>>]
      [] net.kind = "status" ->
            [cls |-> "ClientResponseError", msg |-> <<net.by>>]
      [] net.kind = "truncated" /\ method # "DELETE" ->
            [cls |-> "ClientPayloadError", msg |-> <<"Response payload is not completed">>]
      [] net.kind = "malformed" /\ method # "DELETE" ->
            [cls |-> "JSONDecodeError", msg |-> <<"Expecting value">>]
      [] OTHER -> [cls |-> "none", msg |-> <<>>]

\* The subclasses of aiohttp.ClientError: what "except aiohttp.ClientError" catches.
ClientErrors ==
    {"ClientConnectorError", "ServerTimeoutError", "ClientResponseError", "ClientPayloadError"}

CaughtByClient(exc) == exc.cls \in ClientErrors

\* raise Exception(f"Sonarr API request failed: {str(e)}")
UniformError(exc) ==
    [cls |-> "Exception", msg |-> <<"Sonarr API request failed: ">> \o exc.msg]

DeletedMarker == [status |-> "deleted"]

\* The outcome of make_api_request(endpoint, method, data) once the network
\* has acted on its request: the value returned or the exception raised.
MakeApiRequestOutcome(method, net) ==
    LET exc == AiohttpRaises(method, net)
    IN  IF exc.cls = "none"
        THEN [st |-> "returned", exc |-> exc,
              json |-> IF method = "DELETE" THEN DeletedMarker ELSE net.body]
        ELSE IF CaughtByClient(exc)
        THEN [st |-> "raised", exc |-> UniformError(exc), json |-> EmptyDoc]
        ELSE [st |-> "raised", exc |-> exc, json |-> EmptyDoc]

\* url = f"{API_BASE}/{endpoint.lstrip('/')}" with the two headers
Request(cfg, endpoint, method, data) ==
    [url |-> cfg.base \o <<"/">> \o endpoint, key |-> cfg.key,
     ctype |-> "application/json", method |-> method, data |-> data]

---------------------------------------------------------------------------
(* What a handler hands back.  A tool returns a dict, a resource a str.    *)

Success(data) == [type |-> "dict", value |-> [status |-> "success", data |-> data]]
Error(msg) == [type |-> "dict", value |-> [error |-> msg]]
Str(text) == [type |-> "str", value |-> text]
NoResult == [type |-> "none"]
\* what make_api_request hands to a caller of its own: the parsed document
Json(doc) == [type |-> "json", value |-> doc]

\* A computation inside a try block: the value it yields or the exception it raises.
Value(v) == [raised |-> FALSE, value |-> v]
Raise(cls, msg) == [raised |-> TRUE, exc |-> [cls |-> cls, msg |-> msg]]

---------------------------------------------------------------------------
(* get_series_list, lines 107-156.                                         *)

\* lines 126-142
SeriesSummary(series) ==
    [id |-> Opt(series, "id"),
     title |-> Opt(series, "title"),
     status |-> Opt(series, "status"),
     monitored |-> Opt(series, "monitored"),
     year |-> Opt(series, "year"),
     seasons |-> Len(Get(series, "seasons", <<>>)),
     episodes |->
        [total |-> Get(Get(series, "statistics", EmptyDoc), "episodeCount", 0),
         available |-> Get(Get(series, "statistics", EmptyDoc), "episodeFileCount", 0),
         missing |-> Get(Get(series, "statistics", EmptyDoc), "episodeCount", 0)
                     - Get(Get(series, "statistics", EmptyDoc), "episodeFileCount", 0)],
     quality_profile |-> Opt(series, "qualityProfileId"),
     path |-> Opt(series, "path"),
     network |-> Opt(series, "network"),
     genres |-> Take(Get(series, "genres", <<>>), GenreLimit)]

\* lines 119-121: the monitored filter
SeriesFilter(monitored, series_data) ==
    IF monitored # None
    THEN SelectSeq(series_data, LAMBDA s : Opt(s, "monitored") = monitored)
    ELSE series_data

\* line 146: "total_series": len(series_summary)
SeriesTotal(series_data, series_summary) == Len(series_summary)

\* lines 119-149
SeriesListResult(monitored, series_data) ==
    LET series_summary == Map(SeriesFilter(monitored, series_data), SeriesSummary)
    IN  Value([total_series |-> SeriesTotal(series_data, series_summary),
               monitored_count |-> Count(series_summary, LAMBDA s : Truthy(s.monitored)),
               series |-> series_summary])

---------------------------------------------------------------------------
(* get_series_details, lines 159-215.                                      *)

\* lines 203-207
SeasonInfo(season) ==
    [season_number |-> Opt(season, "seasonNumber"),
     monitored |-> Opt(season, "monitored"),
     statistics |-> Get(season, "statistics", EmptyDoc)]

\* lines 171-208
SeriesDetailsResult(series_data) ==
    Value(
    [basic_info |->
        [id |-> Opt(series_data, "id"),
         title |-> Opt(series_data, "title"),
         sort_title |-> Opt(series_data, "sortTitle"),
         status |-> Opt(series_data, "status"),
         overview |-> Truncate(Get(series_data, "overview", <<>>), OverviewLimitDetails),
         network |-> Opt(series_data, "network"),
         air_time |-> Opt(series_data, "airTime"),
         runtime |-> Opt(series_data, "runtime"),
         year |-> Opt(series_data, "year"),
         genres |-> Get(series_data, "genres", <<>>),
         certification |-> Opt(series_data, "certification"),
         imdb_id |-> Opt(series_data, "imdbId"),
         tvdb_id |-> Opt(series_data, "tvdbId")],
     monitoring |->
        [monitored |-> Opt(series_data, "monitored"),
         season_folder |-> Opt(series_data, "seasonFolder"),
         quality_profile_id |-> Opt(series_data, "qualityProfileId"),
         language_profile_id |-> Opt(series_data, "languageProfileId")],
     statistics |-> Get(series_data, "statistics", EmptyDoc),
     file_info |->
        [path |-> Opt(series_data, "path"),
         size_on_disk |-> Get(Get(series_data, "statistics", EmptyDoc), "sizeOnDisk", 0)],
     seasons |-> Map(Get(series_data, "seasons", <<>>), SeasonInfo)])

---------------------------------------------------------------------------
(* search_series, lines 218-262.                                           *)

\* urllib.parse.quote(term)
Quote(term) == <<"quote", term>>

\* lines 236-248
LookupInfo(result) ==
    [title |-> Opt(result, "title"),
     year |-> Opt(result, "year"),
     tvdb_id |-> Opt(result, "tvdbId"),
     imdb_id |-> Opt(result, "imdbId"),
     overview |-> Truncate(Get(result, "overview", <<>>), OverviewLimitSearch),
     network |-> Opt(result, "network"),
     status |-> Opt(result, "status"),
     genres |-> Take(Get(result, "genres", <<>>), GenreLimit),
     runtime |-> Opt(result, "runtime"),
     seasons |-> Len(Get(result, "seasons", <<>>)),
     images |-> Get(result, "images", <<>>)]

\* lines 234-255
SearchSeriesResult(term, search_results) ==
    LET results == Map(Take(search_results, SearchLimit), LookupInfo)
    IN  Value([search_term |-> term,
               results_count |-> Len(results),
               results |-> results])

---------------------------------------------------------------------------
(* add_series, lines 265-336.                                              *)

\* lines 299-313
AddData(tvdb_id, title, root_folder_path, quality_profile_id, monitored, series_data) ==
    [title |-> Get(series_data, "title", title),
     qualityProfileId |-> quality_profile_id,
     languageProfileId |-> DefaultLanguageProfile,
     rootFolderPath |-> root_folder_path,
     monitored |-> monitored,
     addOptions |-> [monitor |-> "all", searchForMissingEpisodes |-> TRUE],
     tvdbId |-> tvdb_id,
     titleSlug |-> Opt(series_data, "titleSlug"),
     images |-> Get(series_data, "images", <<>>),
     seasons |-> Get(series_data, "seasons", <<>>)]

\* lines 318-329
AddSeriesResult(result) ==
    Value(
    [added_series |->
        [id |-> Opt(result, "id"),
         title |-> Opt(result, "title"),
         tvdb_id |-> Opt(result, "tvdbId"),
         path |-> Opt(result, "path"),
         monitored |-> Opt(result, "monitored"),
         quality_profile_id |-> Opt(result, "qualityProfileId"),
         seasons |-> Len(Get(result, "seasons", <<>>))],
     message |-> <<"Successfully added '", Opt(result, "title"), "' to Sonarr">>])

---------------------------------------------------------------------------
(* get_calendar, lines 339-403.                                            *)

\* strftime("%Y-%m-%d") of a day
Strftime(day) == <<"date", day>>

\* lines 350-355: the default range around now
CalendarRange(start, end, now) ==
    [start |-> IF start = None THEN Strftime(now - CalendarDaysBack) ELSE start[1],
     end |-> IF end = None THEN Strftime(now + CalendarDaysForward) ELSE end[1]]

\* lines 358-360
CalendarParams(range, unmonitored) ==
    <<"start=", range.start, "&end=", range.end>>
        \o (IF unmonitored THEN <<"&unmonitored=true">> ELSE <<>>)

\* lines 367-379
EpisodeInfo(episode) ==
    [episode_id |-> Opt(episode, "id"),
     series_title |-> Opt(Get(episode, "series", EmptyDoc), "title"),
     series_id |-> Opt(episode, "seriesId"),
     season_number |-> Opt(episode, "seasonNumber"),
     episode_number |-> Opt(episode, "episodeNumber"),
     title |-> Opt(episode, "title"),
     air_date |-> Opt(episode, "airDate"),
     air_date_utc |-> Opt(episode, "airDateUtc"),
     has_file |-> Opt(episode, "hasFile"),
     monitored |-> Opt(episode, "monitored"),
     overview |-> Truncate(Get(episode, "overview", <<>>), OverviewLimitCalendar)]

\* lines 383-388: the dict episodes_by_date as its items in insertion order
RECURSIVE GroupByDate(_, _)
GroupByDate(episodes, acc) ==
    IF episodes = <<>> THEN acc
    ELSE LET ep == Head(episodes)
             at == {k \in 1..Len(acc) : acc[k].air_date = ep.air_date}
         IN  IF at = {}
             THEN GroupByDate(Tail(episodes),
                      Append(acc, [air_date |-> ep.air_date, episodes |-> <<ep>>]))
             ELSE GroupByDate(Tail(episodes),
                      [k \in 1..Len(acc) |->
                          IF k \in at
                          THEN [acc[k] EXCEPT !.episodes = Append(@, ep)]
                          ELSE acc[k]])

\* None < "2024-01-01" raises TypeError; two dates compare as strings
Comparable(a, b) == a # None /\ b # None
Before(a, b) == a[1] < b[1]

\* sorted(items): raises as soon as two keys that cannot be compared meet,
\* which any sort of two or more items with a None key must do
SortRaises(items) ==
    \E j, k \in 1..Len(items) : j # k /\ ~Comparable(items[j].air_date, items[k].air_date)

\* the groups left in the order the dict was filled, the sort forgotten
InsertionOrder(items) == items

RECURSIVE SortedItems(_)
SortedItems(items) ==
    IF Len(items) <= 1 THEN items
    ELSE LET m == CHOOSE j \in 1..Len(items) :
                      \A k \in 1..Len(items) : k = j \/ Before(items[j].air_date, items[k].air_date)
             rest == [k \in 1..(Len(items) - 1) |-> IF k < m THEN items[k] ELSE items[k + 1]]
         IN  <<items[m]>> \o SortedItems(rest)

\* lines 365-396
CalendarResult(range, calendar_data) ==
    LET episodes == Map(calendar_data, EpisodeInfo)
        episodes_by_date == GroupByDate(episodes, <<>>)
    IN  IF SortRaises(episodes_by_date)
        THEN Raise("TypeError", <<"'<' not supported between instances of 'NoneType' and 'str'">>)
        ELSE Value([date_range |-> <<range.start, " to ", range.end>>,
                    total_episodes |-> Len(episodes),
                    episodes_with_files |-> Count(episodes, LAMBDA ep : Truthy(ep.has_file)),
                    episodes_by_date |-> SortedItems(episodes_by_date),
                    all_episodes |-> episodes])

---------------------------------------------------------------------------
(* get_queue, lines 406-453.                                               *)

\* max(item.get("size", 1), 1)
ProgressDivisor(item) == Max(Get(item, "size", 1), 1)

\* the share that is left instead of the share that is done
ProgressOfRemaining(item) ==
    LET divisor == ProgressDivisor(item)
        sizeleft == Get(item, "sizeleft", 0)
    IN  RoundHalfEven(sizeleft * 100 * Pow10(ProgressDigits), divisor)

\* round((1 - sizeleft / divisor) * 100, 2), in units of 10^-2 percent
Progress(item) ==
    LET divisor == ProgressDivisor(item)
        sizeleft == Get(item, "sizeleft", 0)
    IN  RoundHalfEven((divisor - sizeleft) * 100 * Pow10(ProgressDigits), divisor)

\* lines 424-438
QueueInfo(item) ==
    [id |-> Opt(item, "id"),
     series_title |-> Opt(Get(item, "series", EmptyDoc), "title"),
     episode_title |-> Opt(Get(item, "episode", EmptyDoc), "title"),
     season_number |-> Opt(Get(item, "episode", EmptyDoc), "seasonNumber"),
     episode_number |-> Opt(Get(item, "episode", EmptyDoc), "episodeNumber"),
     quality |-> Opt(Get(Get(item, "quality", EmptyDoc), "quality", EmptyDoc), "name"),
     size |-> Get(item, "size", 0),
     sizeleft |-> Get(item, "sizeleft", 0),
     status |-> Opt(item, "status"),
     tracked_download_status |-> Opt(item, "trackedDownloadStatus"),
     download_client |-> Opt(item, "downloadClient"),
     output_path |-> Opt(item, "outputPath"),
     progress |-> Progress(item)]

\* every item that is not completed taken for an active download
IsNotCompleted(item) == item.status # Some("completed")

IsActive(item) == item.status \in {Some("downloading"), Some("queued")}
IsCompleted(item) == item.status = Some("completed")

\* lines 422-446
QueueResult(queue_data) ==
    LET queue_items == Map(Get(queue_data, "records", <<>>), QueueInfo)
    IN  Value([total_items |-> Len(queue_items),
               active_downloads |-> Count(queue_items, IsActive),
               completed_items |-> Count(queue_items, IsCompleted),
               queue |-> queue_items])

---------------------------------------------------------------------------
(* get_history, lines 456-503.                                             *)

\* lines 466-468
HistoryParams(page, page_size, series_id) ==
    <<"page=", page, "&pageSize=", page_size, "&sortKey=date&sortDirection=descending">>
        \o (IF series_id # None /\ series_id # Some(0)
            THEN <<"&seriesId=", series_id[1]>> ELSE <<>>)

\* lines 475-487
HistoryInfo(item) ==
    [id |-> Opt(item, "id"),
     episode_id |-> Opt(item, "episodeId"),
     series_title |-> Opt(Get(item, "series", EmptyDoc), "title"),
     episode_title |-> Opt(Get(item, "episode", EmptyDoc), "title"),
     season_number |-> Opt(Get(item, "episode", EmptyDoc), "seasonNumber"),
     episode_number |-> Opt(Get(item, "episode", EmptyDoc), "episodeNumber"),
     quality |-> Opt(Get(Get(item, "quality", EmptyDoc), "quality", EmptyDoc), "name"),
     event_type |-> Opt(item, "eventType"),
     date |-> Opt(item, "date"),
     download_client |-> Opt(Get(item, "data", EmptyDoc), "downloadClient"),
     source_title |-> Opt(item, "sourceTitle")]

\* lines 473-496
HistoryResult(page, page_size, history_data) ==
    LET history_items == Map(Get(history_data, "records", <<>>), HistoryInfo)
    IN  Value([page |-> page,
               page_size |-> page_size,
               total_records |-> Get(history_data, "totalRecords", 0),
               records_on_page |-> Len(history_items),
               history |-> history_items])

---------------------------------------------------------------------------
(* trigger_series_search, lines 506-536.                                   *)

\* lines 515-518
CommandData(series_id) == [name |-> "SeriesSearch", seriesId |-> series_id]

\* lines 522-529
TriggerResult(series_id, result) ==
    Value([command_id |-> Opt(result, "id"),
           command_name |-> Opt(result, "name"),
           series_id |-> series_id,
           status |-> Opt(result, "status"),
           queued_at |-> Opt(result, "queued"),
           message |-> <<"Search command queued for series ID ", series_id>>])

---------------------------------------------------------------------------
(* get_system_status, lines 539-597.                                       *)

\* lines 555-571
SystemInfo(status_data) ==
    [version |-> Opt(status_data, "version"),
     build_time |-> Opt(status_data, "buildTime"),
     startup_path |-> Opt(status_data, "startupPath"),
     app_data |-> Opt(status_data, "appData"),
     os_name |-> Opt(status_data, "osName"),
     os_version |-> Opt(status_data, "osVersion"),
     is_debug |-> Opt(status_data, "isDebug"),
     is_production |-> Opt(status_data, "isProduction"),
     is_admin |-> Opt(status_data, "isAdmin"),
     is_user_interactive |-> Opt(status_data, "isUserInteractive"),
     branch |-> Opt(status_data, "branch"),
     authentication |-> Opt(status_data, "authentication"),
     migration_version |-> Opt(status_data, "migrationVersion"),
     url_base |-> Opt(status_data, "urlBase"),
     runtime_version |-> Opt(status_data, "runtimeVersion")]

\* lines 576-580
HealthInfo(issue) ==
    [type |-> Opt(issue, "type"),
     message |-> Opt(issue, "message"),
     wiki_url |-> Opt(issue, "wikiUrl")]

\* lines 554-590
SystemStatusResult(status_data, health_data) ==
    LET health_issues == Map(health_data, HealthInfo)
    IN  Value([system |-> SystemInfo(status_data),
               health |-> [total_issues |-> Len(health_issues),
                           issues |-> health_issues,
                           status |-> IF Len(health_issues) = 0
                                      THEN "healthy" ELSE "has_issues"]])

---------------------------------------------------------------------------
(* The resources, lines 600-655.                                           *)

\* lines 605-611
PosterResult(cfg, series_id, series_data) ==
    LET images == Get(series_data, "images", <<>>)
        posters == {k \in 1..Len(images) : Opt(images[k], "coverType") = Some("poster")}
    IN  IF posters # {}
        THEN LET first == CHOOSE k \in posters : \A j \in posters : k <= j
             IN  Value(<<cfg.url, Opt(images[first], "url")>>)
        ELSE Value(<<"No poster image found for series ", series_id>>)

\* json.dumps(details, indent=2)
JsonDumps(details) == <<"json", details>>

\* lines 642-649
FileInfo(file_info) ==
    [file_id |-> Opt(file_info, "id"),
     relative_path |-> Opt(file_info, "relativePath"),
     path |-> Opt(file_info, "path"),
     size |-> Opt(file_info, "size"),
     quality |-> Opt(Get(Get(file_info, "quality", EmptyDoc), "quality", EmptyDoc), "name"),
     media_info |-> Get(file_info, "mediaInfo", EmptyDoc)]

\* lines 622-651
EpisodeDetailsResult(episode_data) ==
    LET details ==
            [episode_info |->
                [id |-> Opt(episode_data, "id"),
                 title |-> Opt(episode_data, "title"),
                 season_number |-> Opt(episode_data, "seasonNumber"),
                 episode_number |-> Opt(episode_data, "episodeNumber"),
                 air_date |-> Opt(episode_data, "airDate"),
                 overview |-> Opt(episode_data, "overview"),
                 has_file |-> Opt(episode_data, "hasFile"),
                 monitored |-> Opt(episode_data, "monitored")],
             series_info |->
                [series_id |-> Opt(episode_data, "seriesId"),
                 series_title |-> Opt(Get(episode_data, "series", EmptyDoc), "title")]]
        file == Get(episode_data, "episodeFile", EmptyDoc)
    IN  IF file # EmptyDoc
        THEN Value(JsonDumps([episode_info |-> details.episode_info,
                               series_info |-> details.series_info,
                               file_info |-> FileInfo(file)]))
        ELSE Value(JsonDumps(details))

---------------------------------------------------------------------------
(* The environment: what callers ask for and what the Sonarr API answers.  *)
(* Every document has the container shape the endpoint promises (a list or *)
(* an object); any of its fields may be absent.                            *)

RECURSIVE SeqsUpTo(_, _)
SeqsUpTo(S, n) ==
    IF n = 0 THEN {<<>>}
    ELSE LET shorter == SeqsUpTo(S, n - 1)
         IN  shorter \cup {Append(s, x) : s \in {t \in shorter : Len(t) = n - 1}, x \in S}

SeasonDocs == <<[seasonNumber |-> 1, monitored |-> TRUE], EmptyDoc>>
ImageDocs ==
    <<[coverType |-> "banner", url |-> "/banner.jpg"],
      [coverType |-> "poster", url |-> "/poster.jpg"],
      [coverType |-> "poster"]>>

SeriesDocs ==
    { [id |-> 1, title |-> "Lost", status |-> "ended", monitored |-> TRUE, year |-> 2004,
       seasons |-> SeasonDocs,
       statistics |-> [episodeCount |-> 3, episodeFileCount |-> 1, sizeOnDisk |-> 9],
       qualityProfileId |-> 4, path |-> "/tv/Lost", network |-> "ABC",
       genres |-> <<"drama", "mystery", "adventure", "fantasy">>],
      [id |-> 2, title |-> "Fargo", monitored |-> FALSE],
      EmptyDoc }

SeriesDetailDocs ==
    { [id |-> 1, title |-> "Lost", overview |-> Text(OverviewLimitDetails),
       seasons |-> SeasonDocs, images |-> ImageDocs,
       statistics |-> [episodeCount |-> 3, sizeOnDisk |-> 9]],
      [id |-> 1, overview |-> Text(OverviewLimitDetails + 1),
       images |-> SubSeq(ImageDocs, 3, 3)],
      [id |-> 1, images |-> SubSeq(ImageDocs, 1, 1)],
      EmptyDoc }

LookupDocs ==
    { [title |-> "Lost", tvdbId |-> 7, titleSlug |-> "lost",
       overview |-> Text(OverviewLimitSearch + 1), seasons |-> SeasonDocs,
       genres |-> <<"drama", "mystery", "adventure", "fantasy">>],
      [title |-> "Fargo", tvdbId |-> 8, overview |-> Text(OverviewLimitSearch)],
      EmptyDoc }

LookupLists ==
    SeqsUpTo(LookupDocs, 1) \cup
    { [k \in 1..(SearchLimit + 1) |-> [title |-> "Lost", tvdbId |-> k]] }

RootFolderLists ==
    { <<>>, <<[path |-> "/tv"]>>, <<[path |-> "/tv"], [path |-> "/tv2"]>>, <<EmptyDoc>> }

QualityProfileLists ==
    { <<>>, <<[id |-> 4]>>, <<[id |-> 4], [id |-> 6]>>, <<EmptyDoc>> }

CreatedDocs ==
    { [id |-> 9, title |-> "Lost", tvdbId |-> 7, path |-> "/tv/Lost", monitored |-> TRUE,
       qualityProfileId |-> 4, seasons |-> SeasonDocs],
      EmptyDoc }

CalendarDocs ==
    { [id |-> 1, airDate |-> 20240102, hasFile |-> TRUE, series |-> [title |-> "Lost"],
       overview |-> Text(OverviewLimitCalendar + 1)],
      [id |-> 2, airDate |-> 20240101, hasFile |-> FALSE,
       overview |-> Text(OverviewLimitCalendar)],
      [id |-> 3, airDate |-> 20240102],
      EmptyDoc }

Statuses == {"downloading", "queued", "completed", "paused"}

QueueItems ==
    { [size |-> s, sizeleft |-> l, status |-> "downloading"] : s, l \in 0..MaxSize }
    \cup { [id |-> 1, status |-> st, size |-> 1, sizeleft |-> 0] : st \in Statuses }
    \cup { [sizeleft |-> l] : l \in 0..MaxSize }
    \cup { [size |-> 0], EmptyDoc }

QueueDocs == { [records |-> r] : r \in SeqsUpTo(QueueItems, MaxQueue) } \cup { EmptyDoc }

HistoryDocs ==
    { [totalRecords |-> 2,
       records |-> <<[id |-> 1, eventType |-> "grabbed", data |-> [downloadClient |-> "nzb"]],
                     EmptyDoc>>],
      [records |-> <<>>],
      EmptyDoc }

CommandDocs == { [id |-> 5, name |-> "SeriesSearch", status |-> "queued"], EmptyDoc }

SystemStatusDocs == { [version |-> "4.0", branch |-> "main", isDebug |-> FALSE], EmptyDoc }

HealthLists ==
    { <<>>, <<[type |-> "warning", message |-> "no indexers"]>>, <<EmptyDoc>> }

EpisodeDocs ==
    { [id |-> 1, title |-> "Pilot", seriesId |-> 1, series |-> [title |-> "Lost"],
       episodeFile |-> [id |-> 3, path |-> "/tv/Lost/s01e01.mkv",
                        quality |-> [quality |-> [name |-> "HD"]]]],
      [id |-> 1, hasFile |-> FALSE],
      EmptyDoc }

Routes ==
    {"series", "series/{id}", "series/lookup", "rootfolder", "qualityprofile",
     "series:create", "calendar", "queue", "history", "command", "system/status",
     "health", "episode/{id}"}

\* every document of the model, per route
FullDocs ==
    [r \in Routes |->
        CASE r = "series" -> SeqsUpTo(SeriesDocs, MaxSeries)
          [] r = "series/{id}" -> SeriesDetailDocs
          [] r = "series/lookup" -> LookupLists
          [] r = "rootfolder" -> RootFolderLists
          [] r = "qualityprofile" -> QualityProfileLists
          [] r = "series:create" -> CreatedDocs
          [] r = "calendar" -> SeqsUpTo(CalendarDocs, MaxCalendar)
          [] r = "queue" -> QueueDocs
          [] r = "history" -> HistoryDocs
          [] r = "command" -> CommandDocs
          [] r = "system/status" -> SystemStatusDocs
          [] r = "health" -> HealthLists
          [] r = "episode/{id}" -> EpisodeDocs]

\* one or two documents per route, for the runs with concurrent invocations
FewDocs ==
    [r \in Routes |->
        CASE r = "series" -> { <<[id |-> 1, monitored |-> TRUE], [id |-> 2]>> }
          [] r = "series/{id}" -> { [id |-> 1, images |-> SubSeq(ImageDocs, 2, 2)] }
          [] r = "series/lookup" -> { <<>>, <<[title |-> "Lost", tvdbId |-> 7]>> }
          [] r = "rootfolder" -> { <<>>, <<[path |-> "/tv"]>> }
          [] r = "qualityprofile" -> { <<[id |-> 4]>> }
          [] r = "series:create" -> { [id |-> 9, title |-> "Lost"] }
          [] r = "calendar" -> { <<[id |-> 1, airDate |-> 20240102]>> }
          [] r = "queue" -> { [records |-> <<[size |-> 2, sizeleft |-> 1]>>] }
          [] r = "history" -> { [records |-> <<>>] }
          [] r = "command" -> { [id |-> 5] }
          [] r = "system/status" -> { [version |-> "4.0"] }
          [] r = "health" -> { <<>>, <<[type |-> "warning"]>> }
          [] r = "episode/{id}" -> { [id |-> 1] }]

Today == 20000

\* what a caller may invoke: handler and arguments
AllRequests ==
    { [handler |-> "get_series_list", monitored |-> m, include_season_images |-> s] :
          m \in {None, Some(TRUE), Some(FALSE)}, s \in BOOLEAN }
    \cup { [handler |-> "get_series_details", series_id |-> 1] }
    \cup { [handler |-> "search_series", term |-> "lost"] }
    \cup { [handler |-> "add_series", tvdb_id |-> 7, title |-> "Lost?",
            root_folder_path |-> p, quality_profile_id |-> q, monitored |-> m] :
          p \in {None, Some("/data")}, q \in {None, Some(2)}, m \in BOOLEAN }
    \cup { [handler |-> "get_calendar", start |-> s, end |-> e, unmonitored |-> u] :
          s \in {None, Some(Strftime(Today))}, e \in {None, Some(Strftime(Today + 1))},
          u \in BOOLEAN }
    \cup { [handler |-> "get_queue", include_unknown_series_items |-> u] : u \in BOOLEAN }
    \cup { [handler |-> "get_history", page |-> 1, page_size |-> 20, series_id |-> s] :
          s \in {None, Some(0), Some(1)} }
    \cup { [handler |-> "trigger_series_search", series_id |-> 1] }
    \cup { [handler |-> "get_system_status"] }
    \cup { [handler |-> "get_series_poster", series_id |-> 1] }
    \cup { [handler |-> "get_episode_details", episode_id |-> 1] }

FewRequests ==
    { [handler |-> "get_series_list", monitored |-> Some(TRUE), include_season_images |-> FALSE],
      [handler |-> "add_series", tvdb_id |-> 7, title |-> "Lost?",
       root_folder_path |-> None, quality_profile_id |-> None, monitored |-> TRUE],
      [handler |-> "get_system_status"],
      [handler |-> "get_series_poster", series_id |-> 1] }

\* callers of make_api_request itself, one for each method it knows
ClientRequests ==
    { [handler |-> "make_api_request", route |-> "series/{id}",
       endpoint |-> <<"series/", 1>>, method |-> "GET", data |-> None],
      [handler |-> "make_api_request", route |-> "series:create",
       endpoint |-> <<"series">>, method |-> "POST", data |-> [title |-> "Lost"]],
      [handler |-> "make_api_request", route |-> "series/{id}",
       endpoint |-> <<"series/", 1>>, method |-> "PUT", data |-> [monitored |-> FALSE]],
      [handler |-> "make_api_request", route |-> "series/{id}",
       endpoint |-> <<"series/", 1>>, method |-> "DELETE", data |-> None] }

FewFailures ==
    { [kind |-> "refused", by |-> "connect"], [kind |-> "timeout", by |-> "total"] }

Tools ==
    {"get_series_list", "get_series_details", "search_series", "add_series",
     "get_calendar", "get_queue", "get_history", "trigger_series_search",
     "get_system_status"}
Resources == {"get_series_poster", "get_episode_details"}

---------------------------------------------------------------------------
(* The handlers as coroutines: what a handler does up to its first await   *)
(* and what it does when the awaited calls have returned.                  *)

Call(route, endpoint, method, data) ==
    [route |-> route, endpoint |-> endpoint, method |-> method, data |-> data]

\* a handler step: it awaits further calls, or it has returned
Await(loc, issue) == [done |-> FALSE, loc |-> loc, issue |-> issue, result |-> NoResult]
Return(loc, result) == [done |-> TRUE, loc |-> loc, issue |-> <<>>, result |-> result]

\* except Exception as e: every exception class of the model derives from Exception
ExceptionClasses ==
    ClientErrors \cup {"Exception", "TimeoutError", "JSONDecodeError", "KeyError", "TypeError"}

\* a handler that catches the client's uniform error and nothing else
CatchesUniformOnly(exc) == exc.cls = "Exception"

HandlerCatches(exc) == exc.cls \in ExceptionClasses

\* the except clause of a tool, return {"error": str(e)}, and of a resource
OnException(handler, exc) ==
    IF handler = "make_api_request" \/ ~HandlerCatches(exc)
    THEN [type |-> "raised", value |-> exc]
    ELSE IF handler = "get_series_poster" THEN Str(<<"Error retrieving poster: ">> \o exc.msg)
    ELSE IF handler = "get_episode_details"
    THEN Str(<<"Error retrieving episode details: ">> \o exc.msg)
    ELSE Error(exc.msg)

\* the end of a try block whose computation yields a value or raises
HandlerReturn(handler, comp) ==
    IF comp.raised THEN OnException(handler, comp.exc)
    ELSE IF handler \in Resources THEN Str(comp.value)
    ELSE Success(comp.value)

LookupCall(req) ==
    Call("series/lookup", <<"series/lookup?term=tvdb:", req.tvdb_id>>, "GET", None)

\* add_series fetching the quality profiles whether or not an id was given
AddSeriesAfterRootAlways(req, loc) ==
    Await([loc EXCEPT !.stage = "qualityprofile"],
          <<Call("qualityprofile", <<"qualityprofile">>, "GET", None)>>)

\* lines 284-292: after the root folder is settled
AddSeriesAfterRoot(req, loc) ==
    IF loc.quality_profile_id = None
    THEN Await([loc EXCEPT !.stage = "qualityprofile"],
               <<Call("qualityprofile", <<"qualityprofile">>, "GET", None)>>)
    ELSE Await([loc EXCEPT !.stage = "lookup"], <<LookupCall(req)>>)

\* add_series keeping the default root folder it resolved in a module global
AddSeriesStartCached(req) ==
    LET loc == [stage |-> "start", root_folder_path |-> req.root_folder_path,
                quality_profile_id |-> req.quality_profile_id]
        known == {j \in DOMAIN inv : /\ inv[j].req.handler = "add_series"
                                     /\ inv[j].req.root_folder_path = None
                                     /\ inv[j].loc.root_folder_path # None}
    IN  IF req.root_folder_path # None THEN AddSeriesAfterRoot(req, loc)
        ELSE IF known # {}
        THEN AddSeriesAfterRoot(req,
                 [loc EXCEPT !.root_folder_path = inv[CHOOSE j \in known : TRUE].loc.root_folder_path])
        ELSE Await([loc EXCEPT !.stage = "rootfolder"],
                   <<Call("rootfolder", <<"rootfolder">>, "GET", None)>>)

\* lines 276-281
AddSeriesStart(req) ==
    LET loc == [stage |-> "start", root_folder_path |-> req.root_folder_path,
                quality_profile_id |-> req.quality_profile_id]
    IN  IF req.root_folder_path = None
        THEN Await([loc EXCEPT !.stage = "rootfolder"],
                   <<Call("rootfolder", <<"rootfolder">>, "GET", None)>>)
        ELSE AddSeriesAfterRoot(req, loc)

\* add_series falling back to a built-in path when no root folder exists
RootFolderStepFallback(req, loc, root_folders) ==
    IF root_folders = <<>> \/ ~Has(root_folders[1], "path")
    THEN AddSeriesAfterRoot(req, [loc EXCEPT !.root_folder_path = Some("/")])
    ELSE AddSeriesAfterRoot(req, [loc EXCEPT !.root_folder_path = Some(root_folders[1].path)])

\* lines 278-281: resumed with the root folders
RootFolderStep(req, loc, root_folders) ==
    IF root_folders = <<>>
    THEN Return(loc, Error(<<"No root folders configured in Sonarr">>))
    ELSE IF ~Has(root_folders[1], "path")
    THEN Return(loc, OnException(req.handler, Raise("KeyError", <<"'path'">>).exc))
    ELSE AddSeriesAfterRoot(req, [loc EXCEPT !.root_folder_path = Some(root_folders[1].path)])

\* lines 286-292: resumed with the quality profiles
QualityProfileStep(req, loc, quality_profiles) ==
    IF quality_profiles = <<>>
    THEN Return(loc, Error(<<"No quality profiles configured in Sonarr">>))
    ELSE IF ~Has(quality_profiles[1], "id")
    THEN Return(loc, OnException(req.handler, Raise("KeyError", <<"'id'">>).exc))
    ELSE Await([loc EXCEPT !.quality_profile_id = Some(quality_profiles[1].id),
                           !.stage = "lookup"],
               <<LookupCall(req)>>)

\* line 316: the create request
CreateCall(req, loc, series_data) ==
    Call("series:create", <<"series">>, "POST",
         AddData(req.tvdb_id, req.title, loc.root_folder_path[1],
                 loc.quality_profile_id[1], req.monitored, series_data))

\* add_series creating the series from its arguments when the lookup finds nothing
LookupStepUnchecked(req, loc, search_results) ==
    Await([loc EXCEPT !.stage = "create"],
          <<CreateCall(req, loc, IF search_results = <<>> THEN EmptyDoc ELSE search_results[1])>>)

\* lines 293-316: resumed with the lookup results
LookupStep(req, loc, search_results) ==
    IF search_results = <<>>
    THEN Return(loc, Error(<<"Could not find series with TVDB ID: ", req.tvdb_id>>))
    ELSE Await([loc EXCEPT !.stage = "create"], <<CreateCall(req, loc, search_results[1])>>)

\* lines 278-336: add_series resumed with the document its awaited call returned
AddSeriesResume(req, loc, json) ==
    CASE loc.stage = "rootfolder" -> RootFolderStep(req, loc, json)
      [] loc.stage = "qualityprofile" -> QualityProfileStep(req, loc, json)
      [] loc.stage = "lookup" -> LookupStep(req, loc, json)
      [] loc.stage = "create" -> Return(loc, HandlerReturn(req.handler, AddSeriesResult(json)))

\* lines 549-552: both coroutines are created and handed to asyncio.gather
SystemStatusCalls ==
    <<Call("system/status", <<"system/status">>, "GET", None),
      Call("health", <<"health">>, "GET", None)>>

\* a handler from its entry to its first await
HandlerStart(req, now) ==
    CASE req.handler = "get_series_list" ->
            Await(EmptyDoc, <<Call("series", <<"series">>, "GET", None)>>)
      [] req.handler = "get_series_details" ->
            Await(EmptyDoc, <<Call("series/{id}", <<"series/", req.series_id>>, "GET", None)>>)
      [] req.handler = "search_series" ->
            Await(EmptyDoc, <<Call("series/lookup",
                                   <<"series/lookup?term=", Quote(req.term)>>, "GET", None)>>)
      [] req.handler = "add_series" -> AddSeriesStart(req)
      [] req.handler = "get_calendar" ->
            LET range == CalendarRange(req.start, req.end, now)
            IN  Await(range, <<Call("calendar",
                                    <<"calendar?">> \o CalendarParams(range, req.unmonitored),
                                    "GET", None)>>)
      [] req.handler = "get_queue" ->
            Await(EmptyDoc,
                  <<Call("queue",
                         <<"queue">> \o (IF req.include_unknown_series_items
                                         THEN <<"?includeUnknownSeriesItems=true">> ELSE <<>>),
                         "GET", None)>>)
      [] req.handler = "get_history" ->
            Await(EmptyDoc,
                  <<Call("history",
                         <<"history?">> \o HistoryParams(req.page, req.page_size, req.series_id),
                         "GET", None)>>)
      [] req.handler = "trigger_series_search" ->
            Await(EmptyDoc, <<Call("command", <<"command">>, "POST", CommandData(req.series_id))>>)
      [] req.handler = "get_system_status" -> Await(EmptyDoc, SystemStatusCalls)
      [] req.handler = "get_series_poster" ->
            Await(EmptyDoc, <<Call("series/{id}", <<"series/", req.series_id>>, "GET", None)>>)
      [] req.handler = "get_episode_details" ->
            Await(EmptyDoc, <<Call("episode/{id}", <<"episode/", req.episode_id>>, "GET", None)>>)
      [] req.handler = "make_api_request" ->
            Await(EmptyDoc, <<Call(req.route, req.endpoint, req.method, req.data)>>)

\* a handler resumed once every call it awaits has returned a document;
\* results are the documents in the order the calls were issued
HandlerResume(cfg, req, loc, results) ==
    LET json == results[Len(results)]
    IN  CASE req.handler = "get_series_list" ->
                Return(loc, HandlerReturn(req.handler, SeriesListResult(req.monitored, json)))
          [] req.handler = "get_series_details" ->
                Return(loc, HandlerReturn(req.handler, SeriesDetailsResult(json)))
          [] req.handler = "search_series" ->
                Return(loc, HandlerReturn(req.handler, SearchSeriesResult(req.term, json)))
          [] req.handler = "add_series" -> AddSeriesResume(req, loc, json)
          [] req.handler = "get_calendar" ->
                Return(loc, HandlerReturn(req.handler, CalendarResult(loc, json)))
          [] req.handler = "get_queue" ->
                Return(loc, HandlerReturn(req.handler, QueueResult(json)))
          [] req.handler = "get_history" ->
                Return(loc, HandlerReturn(req.handler,
                                          HistoryResult(req.page, req.page_size, json)))
          [] req.handler = "trigger_series_search" ->
                Return(loc, HandlerReturn(req.handler, TriggerResult(req.series_id, json)))
          [] req.handler = "get_system_status" ->
                Return(loc, HandlerReturn(req.handler,
                                          SystemStatusResult(results[1], results[2])))
          [] req.handler = "get_series_poster" ->
                Return(loc, HandlerReturn(req.handler, PosterResult(cfg, req.series_id, json)))
          [] req.handler = "get_episode_details" ->
                Return(loc, HandlerReturn(req.handler, EpisodeDetailsResult(json)))
          [] req.handler = "make_api_request" -> Return(loc, Json(json))

---------------------------------------------------------------------------
(* The state machine.                                                      *)

NoNet == [kind |-> "none", by |-> "none"]
NoExc == [cls |-> "none", msg |-> <<>>]

Idle ==
    [pc |-> "idle", req |-> [handler |-> "none"], loc |-> EmptyDoc,
     calls |-> <<>>, result |-> NoResult]

\* make_api_request entered, lines 78-87: the call has constructed a
\* ClientSession, the object sid, the session is open and the one HTTP
\* request of the call is on its way
NewCall(cfg, c, sid) ==
    [route |-> c.route, method |-> c.method,
     request |-> Request(cfg, c.endpoint, c.method, c.data),
     st |-> "inflight", sid |-> sid, session |-> "open", http |-> 1,
     net |-> NoNet, order |-> 0, exc |-> NoExc, json |-> EmptyDoc]

\* a client that sends the request of a failed call once more
AfterNetRetry(call, net, order) ==
    LET out == MakeApiRequestOutcome(call.method, net)
    IN  IF out.st = "raised" /\ call.http < 2
        THEN [call EXCEPT !.http = 2]
        ELSE [call EXCEPT !.st = out.st, !.session = "closed", !.net = net, !.order = order,
                          !.exc = out.exc, !.json = out.json]

\* a client that closes its session after the response has been read, so
\* that an exception passes the close by
AfterNetLeaky(call, net, order) ==
    LET out == MakeApiRequestOutcome(call.method, net)
    IN  [call EXCEPT !.st = out.st,
                     !.session = IF out.st = "returned" THEN "closed" ELSE "open",
                     !.net = net, !.order = order, !.exc = out.exc, !.json = out.json]

\* make_api_request left, lines 88-104: both context managers have exited.
\* net is what the network did; order tells the how-manieth of the
\* invocation's calls this is to be over.
AfterNet(call, net, order) ==
    LET out == MakeApiRequestOutcome(call.method, net)
    IN  [call EXCEPT !.st = out.st, !.session = "closed", !.net = net, !.order = order,
                     !.exc = out.exc, !.json = out.json]

\* The calls a handler step issues.  ClientSession() yields a new object at
\* each evaluation; the object is named by the evaluation that made it, the
\* how-manieth call of which invocation.
Issue(cfg, i, calls, issue) ==
    calls \o [k \in 1..Len(issue) |-> NewCall(cfg, issue[k], <<i, Len(calls) + k>>)]

\* the documents the calls returned, in the order the calls were issued
\* (the order asyncio.gather keeps); for a handler that awaits one call at a
\* time the last one is the call it is resumed with
Results(calls) == Map(calls, LAMBDA c : c.json)

\* The awaiting handler when one of its calls is over: the exception is
\* raised at its await (the first to fail, under gather), or it goes on
\* waiting for the rest, or it is resumed with the documents.
HandlerOnCompletion(cfg, i, this, calls, k) ==
    IF calls[k].st = "raised"
    THEN [this EXCEPT !.pc = "done", !.calls = calls,
                      !.result = OnException(this.req.handler, calls[k].exc)]
    ELSE IF \E j \in 1..Len(calls) : calls[j].st = "inflight"
    THEN [this EXCEPT !.calls = calls]
    ELSE LET step == HandlerResume(cfg, this.req, this.loc, Results(calls))
         IN  [this EXCEPT !.pc = IF step.done THEN "done" ELSE "await",
                          !.loc = step.loc,
                          !.calls = Issue(cfg, i, calls, step.issue),
                          !.result = step.result]

\* the network outcome net reaches call k of invocation i
Complete(i, k, net) ==
    LET this == inv[i]
        over == Cardinality({j \in 1..Len(this.calls) : this.calls[j].st # "inflight"})
        calls == [this.calls EXCEPT ![k] = AfterNet(@, net, over + 1)]
    IN  inv' = [inv EXCEPT ![i] =
                    IF this.pc = "await"
                    THEN HandlerOnCompletion(config, i, this, calls, k)
                    ELSE [this EXCEPT !.calls = calls]]

FullEnv == [requests |-> AllRequests, docs |-> FullDocs, faults |-> NetFailures, clock |-> {Today}]
FewEnv == [requests |-> FewRequests, docs |-> FewDocs, faults |-> FewFailures, clock |-> {Today}]
ClientEnv ==
    [requests |-> ClientRequests, docs |-> FullDocs, faults |-> NetFailures, clock |-> {Today}]
Env == IF env = "all" THEN FullEnv ELSE IF env = "few" THEN FewEnv ELSE ClientEnv

\* A caller invokes a handler, which runs to its first await.
Invoke(i) ==
    /\ inv[i].pc = "idle"
    /\ \E req \in Env.requests, now \in Env.clock :
          LET step == HandlerStart(req, now)
          IN  inv' = [inv EXCEPT ![i] =
                         [pc |-> "await", req |-> req, loc |-> step.loc,
                          calls |-> Issue(config, i, <<>>, step.issue), result |-> NoResult]]
    /\ UNCHANGED <<config, env>>

\* Sonarr answers a request with a 2xx status and a JSON document.
Respond(i, k) ==
    /\ k \in 1..Len(inv[i].calls)
    /\ inv[i].calls[k].st = "inflight"
    /\ \E body \in Env.docs[inv[i].calls[k].route] : Complete(i, k, NetOk(body))
    /\ UNCHANGED <<config, env>>

\* A request fails: no connection, no answer in time, an error status, a bad body.
Fail(i, k) ==
    /\ k \in 1..Len(inv[i].calls)
    /\ inv[i].calls[k].st = "inflight"
    /\ \E net \in Env.faults : Complete(i, k, net)
    /\ UNCHANGED <<config, env>>

MaxCalls == 4

Invocation == \E i \in DOMAIN inv : Invoke(i)
Response == \E i \in DOMAIN inv : \E k \in 1..MaxCalls : Respond(i, k)
Failure == \E i \in DOMAIN inv : \E k \in 1..MaxCalls : Fail(i, k)

Next == Invocation \/ Response \/ Failure


\* one invocation, every request and every document of the model
Init ==
    /\ config = Configuration
    /\ env = "all"
    /\ inv = [i \in 1..1 |-> Idle]

Spec == Init /\ [][Next]_vars

\* NumInv invocations side by side, a few requests and documents
InitConcurrent ==
    /\ config = Configuration
    /\ env = "few"
    /\ inv = [i \in 1..NumInv |-> Idle]

SpecConcurrent == InitConcurrent /\ [][Next]_vars

\* NumInv callers of make_api_request itself side by side
InitClient ==
    /\ config = Configuration
    /\ env = "client"
    /\ inv = [i \in 1..NumInv |-> Idle]

SpecClient == InitClient /\ [][Next]_vars

---------------------------------------------------------------------------
(* Properties.                                                             *)

Slots == DOMAIN inv
CallsOf(t) == 1..Len(t.calls)
IsTool(t) == t.req.handler \in Tools
IsResource(t) == t.req.handler \in Resources
IsErrorDoc(r) == r.type = "dict" /\ "error" \in DOMAIN r.value
IsSuccessDoc(r) == r.type = "dict" /\ "status" \in DOMAIN r.value /\ r.value.status = "success"

\* the three preconditions of add_series: a fetched list that is empty
PreconditionRoutes == {"rootfolder", "qualityprofile", "series/lookup"}
PreconditionFailedAt(t, k) ==
    /\ t.req.handler = "add_series"
    /\ t.calls[k].route \in PreconditionRoutes
    /\ t.calls[k].st = "returned"
    /\ t.calls[k].json = <<>>
PreconditionMessage(t, route) ==
    CASE route = "rootfolder" -> <<"No root folders configured in Sonarr">>
      [] route = "qualityprofile" -> <<"No quality profiles configured in Sonarr">>
      [] route = "series/lookup" -> <<"Could not find series with TVDB ID: ", t.req.tvdb_id>>

FailureIn(t) ==
    \E k \in CallsOf(t) : t.calls[k].st = "raised" \/ PreconditionFailedAt(t, k)

\* C1: no handler lets a failure reach its caller.  Once a call of an
\* invocation has raised, or a precondition of add_series has failed, the
\* invocation is over; a tool has returned a dict with an "error" field that
\* holds the message of a failure of that invocation, a resource has returned
\* a str (no dict, no error field); and no invocation ever ends by raising.
C1_NoFailurePropagates ==
    \A i \in Slots :
        LET t == inv[i]
        IN  /\ t.result.type # "raised"
            /\ FailureIn(t) =>
                /\ t.pc = "done"
                /\ IsTool(t) =>
                    /\ IsErrorDoc(t.result)
                    /\ DOMAIN t.result.value = {"error"}
                    /\ \E k \in CallsOf(t) :
                          \/ t.calls[k].st = "raised" /\ t.result.value.error = t.calls[k].exc.msg
                          \/ /\ PreconditionFailedAt(t, k)
                             /\ t.result.value.error = PreconditionMessage(t, t.calls[k].route)
                /\ IsResource(t) =>
                    /\ t.result.type = "str"
                    /\ \E k \in CallsOf(t) :
                          /\ t.calls[k].st = "raised"
                          /\ Len(t.result.value) = 1 + Len(t.calls[k].exc.msg)
                          /\ SubSeq(t.result.value, 2, Len(t.result.value)) = t.calls[k].exc.msg

\* get_system_status has returned an error after a call of its ran into the
\* total timeout
C1_Witness ==
    \E i \in Slots :
        /\ inv[i].pc = "done"
        /\ inv[i].req.handler = "get_system_status"
        /\ \E k \in CallsOf(inv[i]) :
              inv[i].calls[k].st = "raised" /\ inv[i].calls[k].exc.cls = "TimeoutError"
        /\ IsErrorDoc(inv[i].result)

\* C2: add_series without a root folder path whose root-folder fetch returns
\* an empty list returns the error "No root folders configured ..." and has
\* issued no quality-profile fetch, no lookup and no create.
C2_NoRootFolders ==
    \A i \in Slots :
        LET t == inv[i]
        IN  ( /\ t.req.handler = "add_series"
              /\ t.req.root_folder_path = None
              /\ Len(t.calls) >= 1
              /\ t.calls[1].st = "returned"
              /\ t.calls[1].json = <<>> )
            => /\ t.calls[1].route = "rootfolder"
               /\ t.pc = "done"
               /\ t.result = Error(<<"No root folders configured in Sonarr">>)
               /\ \A k \in CallsOf(t) :
                     t.calls[k].route \notin {"qualityprofile", "series/lookup", "series:create"}

C2_Witness ==
    \E i \in Slots :
        /\ inv[i].req.handler = "add_series"
        /\ inv[i].req.root_folder_path = None
        /\ inv[i].req.quality_profile_id = None
        /\ Len(inv[i].calls) = 1
        /\ inv[i].calls[1].st = "returned"
        /\ inv[i].calls[1].json = <<>>
        /\ inv[i].pc = "done"

\* the calls add_series makes when nothing fails, from its arguments alone
AddSeriesOrder(req) ==
    (IF req.root_folder_path = None THEN <<"rootfolder">> ELSE <<>>)
    \o (IF req.quality_profile_id = None THEN <<"qualityprofile">> ELSE <<>>)
    \o <<"series/lookup", "series:create">>

\* C3: the calls of add_series are a prefix of: root-folder fetch (only
\* without a root folder path), quality-profile fetch (only without a quality
\* profile id), lookup, create.  A call is issued only after every earlier
\* one has returned a non-empty document; the create request is issued at
\* most once, after a non-empty lookup, and carries a resolved root folder
\* path and quality profile id.  A failed precondition is the last call of
\* the invocation and is answered with its own message.
C3_AddSeriesOrder ==
    \A i \in Slots :
        LET t == inv[i]
            order == AddSeriesOrder(t.req)
        IN  t.req.handler = "add_series" =>
            /\ Len(t.calls) <= Len(order)
            /\ \A k \in CallsOf(t) :
                  /\ t.calls[k].route = order[k]
                  /\ k < Len(t.calls) =>
                        t.calls[k].st = "returned" /\ t.calls[k].json # <<>>
                  /\ t.calls[k].route = "series:create" =>
                        /\ t.calls[k].request.method = "POST"
                        /\ t.calls[k - 1].route = "series/lookup"
                        /\ t.calls[k - 1].json # <<>>
                        /\ t.loc.root_folder_path # None
                        /\ t.loc.quality_profile_id # None
                        /\ t.calls[k].request.data.rootFolderPath = t.loc.root_folder_path[1]
                        /\ t.calls[k].request.data.qualityProfileId = t.loc.quality_profile_id[1]
                  /\ PreconditionFailedAt(t, k) =>
                        /\ k = Len(t.calls)
                        /\ t.pc = "done"
                        /\ t.result = Error(PreconditionMessage(t, t.calls[k].route))
            /\ \A r1, r2 \in PreconditionRoutes :
                  r1 # r2 => PreconditionMessage(t, r1) # PreconditionMessage(t, r2)

\* all four calls were made and the series was created
C3_Witness ==
    \E i \in Slots :
        /\ inv[i].req.handler = "add_series"
        /\ Len(inv[i].calls) = 4
        /\ inv[i].calls[4].st = "returned"
        /\ IsSuccessDoc(inv[i].result)

TransportKinds == {"refused", "timeout", "status"}

\* the exception aiohttp raised for a call that is over: the original cause
CauseOf(c) == AiohttpRaises(c.method, c.net)
UniformMessage(c) == <<"Sonarr API request failed: ">> \o CauseOf(c).msg
RaisedUniform(c) ==
    c.st = "raised" /\ c.exc.cls = "Exception" /\ c.exc.msg = UniformMessage(c)

\* among the calls of t that raised, the one that was over first
FirstFailure(t, k) ==
    /\ t.calls[k].st = "raised"
    /\ \A j \in CallsOf(t) : t.calls[j].st = "raised" => t.calls[k].order <= t.calls[j].order

\* C4: get_system_status issues both calls before either is over; it builds
\* the combined document only when both have returned; and when a call fails,
\* whichever is over first, it returns no combined document but the uniform
\* error of the call that failed (uniform for every transport-level failure).
C4_SystemStatusGather ==
    \A i \in Slots :
        LET t == inv[i]
        IN  t.req.handler = "get_system_status" =>
            /\ Len(t.calls) = 2
            /\ t.calls[1].route = "system/status"
            /\ t.calls[2].route = "health"
            /\ IsSuccessDoc(t.result) =>
                  /\ \A k \in CallsOf(t) : t.calls[k].st = "returned"
                  /\ t.result.value.data =
                        SystemStatusResult(t.calls[1].json, t.calls[2].json).value
            /\ (\E k \in CallsOf(t) : t.calls[k].st = "raised") =>
                  /\ t.pc = "done"
                  /\ IsErrorDoc(t.result)
                  /\ \E k \in CallsOf(t) :
                        /\ FirstFailure(t, k)
                        /\ t.result.value.error = t.calls[k].exc.msg
                        /\ t.calls[k].net.kind \in TransportKinds =>
                              /\ RaisedUniform(t.calls[k])
                              /\ t.result.value.error = UniformMessage(t.calls[k])

\* C5: a call whose request meets a transport-level failure (connection
\* refused, timeout, non-2xx status) raises the uniform error with the
\* message "Sonarr API request failed: <cause>"; a call returns a document
\* only if the answer was a complete JSON body, and then that document.
C5_UniformError ==
    \A i \in Slots : \A k \in CallsOf(inv[i]) :
        LET c == inv[i].calls[k]
        IN  /\ c.net.kind \in TransportKinds => RaisedUniform(c)
            /\ c.net.kind \in {"truncated", "malformed"} => c.st = "raised"
            /\ c.st = "returned" => c.net.kind = "ok" /\ c.json = c.net.body

\* C6: a call of make_api_request issues at most one HTTP request, and once
\* a call of an invocation has failed no step issues a further request for
\* that invocation: the failed call is not repeated and no call is added.
C6_Step ==
    \A i \in Slots :
        /\ \A k \in 1..Len(inv'[i].calls) : inv'[i].calls[k].http <= 1
        /\ (\E k \in CallsOf(inv[i]) : inv[i].calls[k].st = "raised") =>
              /\ Len(inv'[i].calls) = Len(inv[i].calls)
              /\ \A k \in CallsOf(inv[i]) :
                    /\ inv'[i].calls[k].http = inv[i].calls[k].http
                    /\ inv[i].calls[k].st = "raised" => inv'[i].calls[k] = inv[i].calls[k]
C6_NoRetry == [][C6_Step]_vars

\* a call of add_series has failed and the invocation is over with that one request
C6_Witness ==
    \E i \in Slots :
        /\ inv[i].req.handler = "add_series"
        /\ inv[i].pc = "done"
        /\ Len(inv[i].calls) = 2
        /\ inv[i].calls[2].st = "raised"
        /\ inv[i].calls[2].http = 1

\* what the upstream did to the first n calls of an invocation
SameAnswers(t, u, n) ==
    \A m \in 1..n : t.calls[m].net = u.calls[m].net /\ t.calls[m].order = u.calls[m].order

\* Two invocations of the same request that were answered alike made the
\* same calls and, once over, returned the same result.
Deterministic(t, u) ==
    (t.req = u.req /\ t.pc # "idle" /\ u.pc # "idle") =>
        /\ \A k \in CallsOf(t) \cap CallsOf(u) :
              SameAnswers(t, u, k - 1) => t.calls[k].request = u.calls[k].request
        /\ ( /\ Len(t.calls) = Len(u.calls)
             /\ SameAnswers(t, u, Len(t.calls)) )
           => t.result = u.result /\ t.pc = u.pc /\ t.loc = u.loc

\* a step changes one invocation and nothing else
C7_Step ==
    /\ config' = config
    /\ \A i, j \in Slots : i # j => inv'[i] = inv[i] \/ inv'[j] = inv[j]

Succeeded(t, h) == t.req.handler = h /\ t.pc = "done" /\ IsSuccessDoc(t.result)

IsMonitored(series) == Opt(series, "monitored") = Some(TRUE)

\* C8: get_series_list(monitored=True) on 5 series of which exactly 2 are
\* monitored returns total_series = 5, a list of 2 and monitored_count = 2;
\* in general total_series is the length of the upstream collection while
\* the list and monitored_count reflect the filter.
C8_TotalSeries ==
    \A i \in Slots :
        LET t == inv[i]
            upstream == t.calls[1].json
            data == t.result.value.data
            kept == IF t.req.monitored = None THEN upstream
                    ELSE SelectSeq(upstream, LAMBDA s : Opt(s, "monitored") = t.req.monitored)
        IN  Succeeded(t, "get_series_list") =>
            /\ ( /\ t.req.monitored = Some(TRUE)
                 /\ Len(upstream) = 5
                 /\ Count(upstream, IsMonitored) = 2 )
               => /\ data.total_series = 5
                  /\ Len(data.series) = 2
                  /\ data.monitored_count = 2
            /\ data.total_series = Len(upstream)
            /\ Len(data.series) = Len(kept)
            /\ data.monitored_count = Count(kept, IsMonitored)

HundredPercent == 100 * Pow10(ProgressDigits)
IsEmptyItem(item) ==
    Has(item, "size") /\ Has(item, "sizeleft") /\ item.size = 0 /\ item.sizeleft = 0
Abs(n) == IF n < 0 THEN 0 - n ELSE n

\* the divisor is the size floored at 1 and progress is (1 - sizeleft/divisor)
\* in percent, rounded to ProgressDigits digits
ProgressFloored(item, info) ==
    LET divisor == IF Has(item, "size") /\ item.size >= 1 THEN item.size ELSE 1
        sizeleft == IF Has(item, "sizeleft") THEN item.sizeleft ELSE 0
    IN  /\ ProgressDivisor(item) = divisor
        /\ divisor >= 1
        /\ 2 * Abs(info.progress * divisor - HundredPercent * (divisor - sizeleft)) <= divisor

\* C9 as stated: a queue item with size = 0 and sizeleft = 0 is reported
\* with progress 0.0, and the divisor of every progress computation is the
\* size floored at 1.
C9_ZeroProgress ==
    \A i \in Slots :
        LET t == inv[i]
            records == Get(t.calls[1].json, "records", <<>>)
            queue == t.result.value.data.queue
        IN  Succeeded(t, "get_queue") =>
            \A k \in 1..Len(records) :
                /\ IsEmptyItem(records[k]) => queue[k].progress = 0
                /\ ProgressFloored(records[k], queue[k])

\* C9 amended: a queue item with size = 0 and sizeleft = 0 is reported with
\* progress 100.0, and the divisor of every progress computation is the size
\* floored at 1.
C9_FullProgress ==
    \A i \in Slots :
        LET t == inv[i]
            records == Get(t.calls[1].json, "records", <<>>)
            queue == t.result.value.data.queue
        IN  Succeeded(t, "get_queue") =>
            /\ Len(queue) = Len(records)
            /\ \A k \in 1..Len(records) :
                  /\ IsEmptyItem(records[k]) => queue[k].progress = HundredPercent
                  /\ ProgressFloored(records[k], queue[k])

\* get_queue has reported a queue that holds an item with size = 0 and sizeleft = 0
C9_Witness ==
    \E i \in Slots :
        /\ Succeeded(inv[i], "get_queue")
        /\ \E k \in 1..Len(Get(inv[i].calls[1].json, "records", <<>>)) :
              IsEmptyItem(inv[i].calls[1].json.records[k])

ResourceErrorPrefixes == {"Error retrieving poster: ", "Error retrieving episode details: "}

\* C10: when every upstream call of an invocation has returned a document of
\* the expected shape, whatever fields are absent from it, and no
\* precondition of add_series has failed, the handler returns a success (a
\* resource: a string that reports no error); a series without statistics is
\* listed with episodes.missing = 0.
C10_AbsentFieldsTolerated ==
    \A i \in Slots :
        LET t == inv[i]
        IN  ( /\ t.pc = "done"
              /\ \A k \in CallsOf(t) : t.calls[k].st = "returned"
              /\ ~ \E k \in CallsOf(t) : PreconditionFailedAt(t, k) )
            => /\ IsTool(t) => IsSuccessDoc(t.result)
               /\ IsResource(t) =>
                     t.result.type = "str" /\ t.result.value[1] \notin ResourceErrorPrefixes
               /\ Succeeded(t, "get_series_list") /\ t.req.monitored = None =>
                     \A k \in 1..Len(t.calls[1].json) :
                         ~Has(t.calls[1].json[k], "statistics") =>
                             t.result.value.data.series[k].episodes.missing = 0

---------------------------------------------------------------------------
(* The grouping of get_calendar.                                           *)

\* get_calendar is over and its one call returned a document
CalendarFetched(t) ==
    /\ t.req.handler = "get_calendar"
    /\ t.pc = "done"
    /\ Len(t.calls) = 1
    /\ t.calls[1].st = "returned"

AirDates(entries) == {Opt(entries[k], "airDate") : k \in 1..Len(entries)}

RECURSIVE SumOfLengths(_)
SumOfLengths(groups) ==
    IF groups = <<>> THEN 0 ELSE Len(Head(groups).episodes) + SumOfLengths(Tail(groups))

---------------------------------------------------------------------------
(* The truncation of overviews.                                            *)

\* out is text cut at limit: the text itself when it has at most limit
\* characters, else its first limit characters followed by the marker "..."
CutAt(text, out, limit) ==
    IF Len(text) <= limit
    THEN out = text
    ELSE /\ Len(out) = limit + 3
         /\ \A k \in 1..limit : out[k] = text[k]
         /\ \A k \in (limit + 1)..(limit + 3) : out[k] = "."

OverviewOf(doc) == IF "overview" \in DOMAIN doc THEN doc.overview ELSE <<>>

\* a handler is over with a success result made from one returned document
Reshaped(t, handler) ==
    /\ t.req.handler = handler
    /\ t.pc = "done"
    /\ Len(t.calls) = 1
    /\ t.calls[1].st = "returned"
    /\ IsSuccessDoc(t.result)

\* C12: the overview get_series_details returns is the upstream overview
\* unchanged when it has at most 500 characters and its first 500 characters
\* followed by "..." when it has more; the same with 300 characters for
\* every result of search_series and with 200 for every episode of
\* get_calendar.
C12_OverviewTruncation ==
    \A i \in Slots :
        LET t == inv[i]
            fetched == t.calls[1].json
        IN  /\ Reshaped(t, "get_series_details") =>
                  CutAt(OverviewOf(fetched), t.result.value.data.basic_info.overview, 500)
            /\ Reshaped(t, "search_series") =>
                  \A k \in 1..Len(t.result.value.data.results) :
                      CutAt(OverviewOf(fetched[k]),
                            t.result.value.data.results[k].overview, 300)
            /\ Reshaped(t, "get_calendar") =>
                  /\ Len(t.result.value.data.all_episodes) = Len(fetched)
                  /\ \A k \in 1..Len(fetched) :
                        CutAt(OverviewOf(fetched[k]),
                              t.result.value.data.all_episodes[k].overview, 200)

\* get_series_details has cut an overview of 501 characters to 500 and the marker
C12_Witness ==
    \E i \in Slots :
        /\ Reshaped(inv[i], "get_series_details")
        /\ Len(OverviewOf(inv[i].calls[1].json)) = 501
        /\ Len(inv[i].result.value.data.basic_info.overview) = 503
        /\ inv[i].result.value.data.basic_info.overview[500] = inv[i].calls[1].json.overview[500]

---------------------------------------------------------------------------
(* The aggregates of get_queue.                                            *)

\* the records of a fetched queue whose status is one of the given ones
WithStatus(records, statuses) ==
    {k \in 1..Len(records) : "status" \in DOMAIN records[k] /\ records[k].status \in statuses}

\* C13: in every result of get_queue active_downloads is the number of
\* fetched items whose status is "downloading" or "queued" and
\* completed_items the number whose status is "completed"; an item with any
\* other status, or none, is in neither, and the two together never exceed
\* total_items, the number of fetched items.
C13_QueueClassification ==
    \A i \in Slots :
        LET t == inv[i]
        IN  Reshaped(t, "get_queue") =>
            LET fetched == t.calls[1].json
                records == IF "records" \in DOMAIN fetched THEN fetched.records ELSE <<>>
                d == t.result.value.data
            IN  /\ d.total_items = Len(records)
                /\ d.active_downloads = Cardinality(WithStatus(records, {"downloading", "queued"}))
                /\ d.completed_items = Cardinality(WithStatus(records, {"completed"}))
                /\ d.active_downloads + d.completed_items <= d.total_items

\* a queue of a completed item and a paused one: one completed, none active, two in total
C13_Witness ==
    \E i \in Slots :
        /\ Reshaped(inv[i], "get_queue")
        /\ LET d == inv[i].result.value.data
           IN  /\ d.total_items = 2
               /\ d.completed_items = 1
               /\ d.active_downloads = 0
               /\ \E k \in 1..2 : d.queue[k].status = Some("paused")

---------------------------------------------------------------------------
(* The sessions of make_api_request.                                       *)

\* the calls of all invocations: invocation and position
AllCalls == {p \in Slots \X (1..MaxCalls) : p[2] <= Len(inv[p[1]].calls)}
CallAt(p) == inv[p[1]].calls[p[2]]

\* C14: every call of make_api_request has a session that no other call
\* has; the session is open while the call is under way and has been
\* released in every state in which the call has returned (whatever its
\* method) or has failed.
C14_SessionScoped ==
    \A p \in AllCalls :
        LET c == CallAt(p)
        IN  /\ \A q \in AllCalls : q # p => CallAt(q).sid # c.sid
            /\ c.st = "inflight" => c.session = "open"
            /\ c.st \in {"returned", "raised"} => c.session = "closed"

\* a DELETE has returned and a PUT has failed, each with its own session, both released
C14_Witness ==
    \E p, q \in AllCalls :
        /\ CallAt(p).method = "DELETE"
        /\ CallAt(p).st = "returned"
        /\ CallAt(p).json = DeletedMarker
        /\ CallAt(q).method = "PUT"
        /\ CallAt(q).st = "raised"
        /\ CallAt(p).session = "closed"
        /\ CallAt(q).session = "closed"
        /\ CallAt(p).sid # CallAt(q).sid

---------------------------------------------------------------------------
(* The number of upstream calls of an invocation.                          *)

\* the calls add_series makes to learn a default it was not given
DefaultsToFetch(req) ==
    (IF req.root_folder_path = None THEN 1 ELSE 0)
        + (IF req.quality_profile_id = None THEN 1 ELSE 0)

\* C15 as stated: no invocation of a handler ever has more than two
\* upstream calls.
C15_AtMostTwoCalls == \A i \in Slots : Len(inv[i].calls) <= 2

\* C15, amended: an invocation of any handler but add_series has at most two
\* upstream calls; an invocation of add_series has at most two and one more
\* for each of root folder path and quality profile id it was not given,
\* four with neither, and has exactly that many when it succeeds.
C15_CallBound ==
    \A i \in Slots :
        LET t == inv[i]
        IN  IF t.req.handler = "add_series"
            THEN /\ Len(t.calls) <= 2 + DefaultsToFetch(t.req)
                 /\ t.pc = "done" /\ IsSuccessDoc(t.result) =>
                        Len(t.calls) = 2 + DefaultsToFetch(t.req)
            ELSE Len(t.calls) <= 2

\* add_series, given neither default, has succeeded after four calls:
\* root folders, quality profiles, lookup, create
C15_Witness ==
    \E i \in Slots :
        /\ inv[i].req.handler = "add_series"
        /\ inv[i].req.root_folder_path = None
        /\ inv[i].req.quality_profile_id = None
        /\ inv[i].pc = "done"
        /\ IsSuccessDoc(inv[i].result)
        /\ Len(inv[i].calls) = 4
        /\ \A k \in 1..4 : inv[i].calls[k].st = "returned"
        /\ inv[i].calls[4].method = "POST"

=============================================================================
